---- MODULE Spec2Model ----
(***************************************************************************)
(* nestvault: the cron scheduler (scheduler.py), the Backup Job it runs    *)
(* (run_backup_job) and the retention engine (retention.py).               *)
(*                                                                         *)
(* Time is an integer count of units; Day units make one day.  A cron      *)
(* schedule is a non-empty set of slots of the day: it fires at every      *)
(* instant t with (t % Day) in the set.                                    *)
(***************************************************************************)
EXTENDS Integers, Sequences, FiniteSets, TLC

VARIABLES
    clock,          \* the wall clock (datetime.now(timezone.utc))
    cfg,            \* config + adapters: backup_schedule, retention_days, run_immediately, database
    pc,             \* position of run_scheduler
    next_run,       \* run_scheduler local, held until the job it is for is called
    now,            \* run_scheduler local (the second clock reading), held likewise
    base,           \* base_time of the last get_next_run_time call, held likewise
    job,            \* position of run_backup_job ("none": not running)
    snapshot,       \* backup_file of the running job
    listed_objects, \* cleanup_old_backups local `objects`: what storage.list returned
    keys_to_delete, \* cleanup_old_backups local, between list and delete_many
    deleted_count,  \* run_backup_job local: what cleanup_old_backups returned, until
                    \* the loop goes on
    fs,             \* the local paths that exist, of the job's temporary directory
    result,         \* what the last run_backup_job call did ("True", "False", "raised"),
                    \* until the next call
    exc,            \* the exception raised inside that call, or "none"
    calls,          \* history: the capability calls of the job, until the loop goes on
    inflight,       \* history: run_backup_job calls entered and not yet returned
    hist,           \* history: job counts and times of one run_scheduler run
    ret,            \* get_expired_backups called on its own: inputs and result
    repo,           \* the remote repository of the storage adapter
    dbcontent,      \* the content of the configured database
    rst,            \* the Restore Workflow (restore.py): the function called, where
                    \* it is, its locals, what it returned, and its capability calls
    sto,            \* a storage adapter (storage/*.py): its variant, the method called,
                    \* where it is, its locals, and the calls it made on its client
    proc            \* the process (main.py): the environment it reads, where main is,
                    \* the adapters it built, and its exit code

vars == <<clock, cfg, pc, next_run, now, base, job, snapshot, listed_objects, keys_to_delete,
          deleted_count, fs, result, exc, calls, inflight, hist, ret, repo, dbcontent, rst, sto, proc>>

schedVars == <<clock, cfg, pc, next_run, now, base, job, snapshot, listed_objects,
               keys_to_delete, deleted_count, fs, result, exc, calls, inflight, hist,
               repo, dbcontent, rst, sto, proc>>

\* the state of run_scheduler and of the job it runs
loopVars == <<clock, cfg, pc, next_run, now, base, job, snapshot, listed_objects,
              keys_to_delete, deleted_count, fs, result, exc, calls, inflight, hist>>

---------------------------------------------------------------------------
(* Bounds of the model *)

Day == 3
MaxTime == 6
MaxStep == 1
MaxRetention == 2
MaxListing == 2

\* no time: a local not yet assigned
NoTime == 0 - 1

\* no count: deleted_count not yet assigned
NoCount == 0 - 1

---------------------------------------------------------------------------
(* Exceptions (exceptions.py) *)

Bases(e) ==
    CASE e = "BackupError"    -> {"BackupError", "NestVaultError", "Exception"}
      [] e = "StorageError"   -> {"StorageError", "NestVaultError", "Exception"}
      [] e = "RetentionError" -> {"RetentionError", "NestVaultError", "Exception"}
      [] e = "ConfigError"    -> {"ConfigError", "NestVaultError", "Exception"}
      [] e = "AttributeError" -> {"AttributeError", "Exception"}
      [] e = "ValueError"     -> {"ValueError", "Exception"}
      [] e = "KeyboardInterrupt" -> {"KeyboardInterrupt", "BaseException"}
      [] e = "Exception"      -> {"Exception"}

IsInstance(e, cls) == cls \in Bases(e)

\* an exception in flight: its class and its __context__, the class of the
\* exception that was being handled when it was raised ("none": there was none)
Raised(type, context) == [type |-> type, context |-> context]

NoException == Raised("none", "none")

BackupOutcomes == {"ok", "BackupError", "Exception"}
StorageOutcomes == {"ok", "StorageError", "Exception"}

---------------------------------------------------------------------------
(* Cron (croniter, as get_next_run_time uses it) *)

Schedules == SUBSET (0 .. Day - 1) \ {{}}

IsOccurrence(sched, t) == (t % Day) \in sched

\* a get_next that takes base_time itself when it is an occurrence
NextCronInclusive(sched, base_time) ==
    CHOOSE t \in base_time .. base_time + Day :
        /\ IsOccurrence(sched, t)
        /\ \A u \in base_time .. t - 1 : ~IsOccurrence(sched, u)

\* cron.get_next(datetime): the earliest occurrence strictly after base_time
NextCron(sched, base_time) ==
    CHOOSE t \in base_time + 1 .. base_time + Day :
        /\ IsOccurrence(sched, t)
        /\ \A u \in base_time + 1 .. t - 1 : ~IsOccurrence(sched, u)

---------------------------------------------------------------------------
(* Datetimes and storage objects (storage/base.py) *)

\* a datetime: the reading t of its own wall clock, and its tzinfo (aware with
\* utcoffset off, or naive)
Datetime(t, aware, off) == [t |-> t, aware |-> aware, off |-> off]

UtcDatetime(t) == Datetime(t, TRUE, 0)

\* datetime.now(timezone.utc)
UtcNow(t) == UtcDatetime(t)

\* last_modified.replace(tzinfo=timezone.utc)
ReplaceTzUtc(dt) == [dt EXCEPT !.aware = TRUE, !.off = 0]

\* dt - timedelta(days=n)
MinusDays(dt, n) == [dt EXCEPT !.t = dt.t - n * Day]

\* a < b of two aware datetimes: their instants are compared
DtLessOrEqual(a, b) == a.t - a.off <= b.t - b.off

DtLess(a, b) == a.t - a.off < b.t - b.off

\* the file name {database}_{timestamp}.{extension} of a snapshot
BackupName(db, ts, ext) == [db |-> db, ts |-> ts, ext |-> ext]

NoSnapshot == BackupName("", NoTime, "")

StorageObject(key, last_modified) == [key |-> key, last_modified |-> last_modified]

---------------------------------------------------------------------------
(* The remote repository behind a storage adapter (storage/s3.py)          *)

\* a database name as text: the pieces of the string, in order
NameText(name) ==
    CASE name = ""         -> <<>>
      [] name = "app"      -> <<"app">>
      [] name = "app_prod" -> <<"app", "_", "prod">>
      [] name = "web"      -> <<"web">>

\* a key as text: f"{database_name}_{timestamp}.{file_extension}"
KeyText(key) == NameText(key.db) \o <<"_", ToString(key.ts), ".", key.ext>>

\* str.startswith, as Prefix= of list_objects_v2 filters keys
StartsWith(text, prefix) ==
    /\ Len(prefix) <= Len(text)
    /\ SubSeq(text, 1, Len(prefix)) = prefix

UnderPrefix(key, prefix) == StartsWith(KeyText(key), NameText(prefix))

\* an object of the repository: its key, its LastModified and its bytes
Stored(key, last_modified, content) ==
    [key |-> key, last_modified |-> last_modified, content |-> content]

\* a repository the model does not look into: a listing may return anything
Untracked == [tracked |-> FALSE, objects |-> {}]

Tracked(stored) == [tracked |-> TRUE, objects |-> stored]

\* upload_file: the object is there under remote_key, in place of an older one
StoreUpload(r, key, content, t) ==
    IF ~r.tracked THEN r
    ELSE [r EXCEPT !.objects = {o \in @ : o.key # key}
                                  \cup {Stored(key, UtcDatetime(t), content)}]

\* list_objects_v2 with Prefix=prefix: the objects whose key starts with prefix
StoreList(r, prefix) ==
    {StorageObject(o.key, o.last_modified) : o \in {x \in r.objects : UnderPrefix(x.key, prefix)}}

\* delete_objects: the objects of these keys are gone; a key that is not there
\* is no error
StoreDelete(r, keys) ==
    IF ~r.tracked THEN r
    ELSE [r EXCEPT !.objects = {o \in @ : o.key \notin keys}]

\* the orders a set may be listed in
Orderings(S) ==
    {s \in [1 .. Cardinality(S) -> S] : \A i, j \in 1 .. Cardinality(S) : s[i] = s[j] => i = j}

SeqToSet(s) == {s[i] : i \in 1 .. Len(s)}

\* delete_many that raises: the keys before the failing one may be gone already
StoreDeleteFailed(r, keys) ==
    {StoreDelete(r, SeqToSet(SubSeq(keys, 1, n))) : n \in 0 .. Len(keys)}

---------------------------------------------------------------------------
(* Retention engine (retention.py) *)

\* retention.py line 40 with <= in place of <
IsExpiredAtCutoffToo(obj, cutoff) ==
    LET last_modified == IF obj.last_modified.aware
                         THEN obj.last_modified
                         ELSE ReplaceTzUtc(obj.last_modified)
    IN DtLessOrEqual(last_modified, cutoff)

\* the body of the loop of get_expired_backups: the test of one object
IsExpired(obj, cutoff) ==
    LET last_modified == IF obj.last_modified.aware
                         THEN obj.last_modified
                         ELSE ReplaceTzUtc(obj.last_modified)
    IN DtLess(last_modified, cutoff)

\* the loop with expired.insert(0, obj) in place of expired.append(obj)
RECURSIVE ExpiredLoopPrepending(_, _, _)
ExpiredLoopPrepending(objects, cutoff, expired) ==
    IF objects = <<>>
    THEN expired
    ELSE ExpiredLoopPrepending(Tail(objects), cutoff,
                               IF IsExpired(Head(objects), cutoff)
                               THEN <<Head(objects)>> \o expired
                               ELSE expired)

RECURSIVE ExpiredLoop(_, _, _)
ExpiredLoop(objects, cutoff, expired) ==
    IF objects = <<>>
    THEN expired
    ELSE ExpiredLoop(Tail(objects), cutoff,
                     IF IsExpired(Head(objects), cutoff)
                     THEN Append(expired, Head(objects))
                     ELSE expired)

\* a retention that takes every listed object for expired
EverythingExpired(objects, retention_days, now_) == objects

get_expired_backups(objects, retention_days, now_) ==
    ExpiredLoop(objects, MinusDays(now_, retention_days), <<>>)

RECURSIVE KeysOf(_)
KeysOf(objects) ==
    IF objects = <<>> THEN <<>> ELSE <<Head(objects).key>> \o KeysOf(Tail(objects))

---------------------------------------------------------------------------
(* Configuration and adapters, as run_scheduler receives them *)

\* the backup adapters: database_name and file_extension
BackupAdapters == {[database |-> "app", extension |-> "sql.gz"]}

Configs ==
    {[backup_schedule |-> s, retention_days |-> d, run_immediately |-> r,
      database |-> a.database, extension |-> a.extension] :
        s \in Schedules, d \in {1, MaxRetention}, r \in BOOLEAN, a \in BackupAdapters}

\* a Path: the directory and the file name
LocalPath(dir, name) == [dir |-> dir, name |-> name]

NoPath == LocalPath("", NoSnapshot)

\* the history of one run_scheduler run: when it began, whether the first next-run
\* time has been computed, the jobs begun and ended before that, the jobs begun
\* after it, the next-run times computed, when the running job began, and, while
\* no job runs, when the last job ended and how many cron occurrences it spanned
HistInit(t) ==
    [start |-> t, computed |-> FALSE, nStartup |-> 0, nStartupDone |-> 0,
     nLoop |-> 0, nComputed |-> 0, jobStart |-> NoTime, lastEnd |-> NoTime,
     spanned |-> 0]

RetIdle == [objects |-> <<>>, days |-> 1, now |-> 0, called |-> FALSE, expired |-> <<>>]

SchedInit ==
    /\ clock \in 0 .. Day - 1
    /\ cfg \in Configs
    /\ pc = "start"
    /\ next_run = NoTime
    /\ now = NoTime
    /\ base = NoTime
    /\ job = "none"
    /\ snapshot = NoPath
    /\ listed_objects = <<>>
    /\ keys_to_delete = <<>>
    /\ deleted_count = NoCount
    /\ fs = {}
    /\ result = "none"
    /\ exc = NoException
    /\ calls = <<>>
    /\ inflight = 0
    /\ hist = HistInit(clock)

\* the content of the database when the model begins
InitialContent == "rows0"

\* no function of restore.py has been called
RestoreIdle ==
    [op |-> "none", pc |-> "idle", backup_key |-> NoSnapshot, listed |-> <<>>,
     backups |-> <<>>, tmp |-> {}, result |-> "none", exc |-> NoException,
     calls |-> <<>>]

\* a storage adapter nobody has constructed yet, and the call that is to be made on it
StorageIdle ==
    [variant |-> "s3", endpoint |-> "", loaded |-> FALSE, client |-> FALSE,
     op |-> "none", pc |-> "idle",
     remote_keys |-> <<>>, prefix |-> "", i |-> 0, objects |-> <<>>,
     returned |-> "none", exc |-> NoException, client_calls |-> <<>>]

\* os.environ without the variables load_config reads ("": not set, or empty)
NoEnv ==
    [DATABASE_TYPE |-> "", STORAGE_TYPE |-> "",
     BACKUP_SCHEDULE |-> [kind |-> "missing", schedule |-> {}],
     RETENTION_DAYS |-> [kind |-> "missing", value |-> 0], S3_ENDPOINT |-> ""]

\* the command line without a command
NoArgs == [command |-> "", list |-> FALSE, backup |-> NoSnapshot]

\* main has not been called: the environment and the arguments it will read,
\* where it is, the adapters it has built, the exception it has caught and the
\* exit code it has returned
MainIdle ==
    [pc |-> "idle", env |-> NoEnv, args |-> NoArgs, backup_adapter |-> FALSE,
     storage_adapter |-> FALSE, exc |-> NoException, exit_code |-> NoCount]

Init ==
    /\ SchedInit
    /\ ret = RetIdle
    /\ repo = Untracked
    /\ dbcontent = InitialContent
    /\ rst = RestoreIdle
    /\ sto = StorageIdle
    /\ proc = MainIdle

\* the time a step takes: the clock moves on by dt
Elapse(dt) == clock + dt <= MaxTime /\ clock' = clock + dt

---------------------------------------------------------------------------
(* run_backup_job (scheduler.py) *)

\* a capability call: how it ended, and the file name it returned (backup), the
\* remote key (upload), the prefix (list) or the keys (delete_many) it was given
Call(op, out, key, prefix, keys) ==
    [op |-> op, out |-> out, key |-> key, prefix |-> prefix, keys |-> keys]

\* the except clauses without the last one, `except Exception`
ExceptResultNoCatchAll(e) ==
    IF IsInstance(e, "BackupError") THEN "False"
    ELSE IF IsInstance(e, "StorageError") THEN "False"
    ELSE "raised"

\* the except clauses of run_backup_job: what the call does with exception e
ExceptResult(e) ==
    IF IsInstance(e, "BackupError") THEN "False"
    ELSE IF IsInstance(e, "StorageError") THEN "False"
    ELSE IF IsInstance(e, "Exception") THEN "False"
    ELSE "raised"

\* a temporary directory that is made and never removed (tempfile.mkdtemp)
TempDirKept(paths) == paths

\* TemporaryDirectory.__exit__: the directory goes, with all that is in it
TempDirExit(paths) == paths \ {"tmpdir", "tmpdir/snapshot"}

\* remote_key = backup_file.name
RemoteKey(backup_file) == backup_file.name

\* a cleanup of every object of the repository
CleanupNoPrefix == ""

\* prefix=backup_adapter.database_name
CleanupPrefix == cfg.database

\* the try body with the upload's failure swallowed
TryBodyNextIgnoringFailure(op, out) ==
    IF op = "backup" THEN (IF out = "ok" THEN "upload" ELSE "raise") ELSE "list"

\* the try body: where control goes after the call op has ended with out
TryBodyNext(op, out) ==
    IF out # "ok" THEN "raise"
    ELSE IF op = "backup" THEN "upload" ELSE "list"

\* a cleanup that lets the exception through as it came
CleanupReraises(e) == Raised(e, "none")

\* cleanup_old_backups: except Exception as e: raise RetentionError(f"...: {e}"),
\* raised while e is handled, so e is its __context__
CleanupRaises(e) == Raised("RetentionError", e)

\* the cron occurrences in (from, to]
Occurrences(sched, from, to) == {t \in from + 1 .. to : IsOccurrence(sched, t)}

JobEnded(h, t) ==
    [h EXCEPT !.lastEnd = t,
              !.jobStart = NoTime,
              !.spanned = Cardinality(Occurrences(cfg.backup_schedule, h.jobStart, t)),
              !.nStartupDone = IF h.computed THEN @ ELSE @ + 1]

\* run_backup_job ends: by return res, or ("raised") by an exception it lets through
JobReturn(e, res, t, calls2, fs2) ==
    /\ job' = "none"
    /\ result' = res
    /\ exc' = e
    /\ pc' = IF res = "raised" THEN "crashed" ELSE "loop"
    /\ inflight' = inflight - 1
    /\ snapshot' = NoPath
    /\ listed_objects' = <<>>
    /\ keys_to_delete' = <<>>
    /\ calls' = calls2
    /\ fs' = fs2
    /\ hist' = JobEnded(hist, t)

\* the scheduler goes on while the job runs
SchedulerGoesOn == "loop"

\* run_backup_job is an ordinary call: run_scheduler is in it until it returns
SchedulerInCall == "in_job"

JobStarted(h, t) ==
    [h EXCEPT !.nStartup = IF h.computed THEN @ ELSE @ + 1,
              !.nLoop = IF h.computed THEN @ + 1 ELSE @,
              !.jobStart = t,
              !.lastEnd = NoTime,
              !.spanned = 0]

JobBegin ==
    /\ pc = "call"
    /\ pc' = SchedulerInCall
    /\ job' = "backup"
    /\ fs' = fs \cup {"tmpdir"}
    /\ calls' = <<>>
    /\ inflight' = inflight + 1
    /\ hist' = JobStarted(hist, clock)
    /\ result' = "none"
    /\ exc' = NoException
    /\ deleted_count' = NoCount
    /\ next_run' = NoTime
    /\ now' = NoTime
    /\ base' = NoTime
    /\ UNCHANGED <<clock, cfg, snapshot, listed_objects, keys_to_delete, ret, repo,
                   dbcontent, rst, sto, proc>>

Backup ==
    /\ job = "backup"
    /\ \E dt \in 0 .. MaxStep, out \in BackupOutcomes :
        /\ Elapse(dt)
        /\ LET name == BackupName(cfg.database, clock, cfg.extension)
               calls2 == Append(calls, Call("backup", out,
                                            IF out = "ok" THEN name ELSE NoSnapshot,
                                            "", <<>>))
           IN IF TryBodyNext("backup", out) = "raise"
              THEN JobReturn(Raised(out, "none"), ExceptResult(out), clock', calls2,
                             TempDirExit(fs))
              ELSE /\ job' = TryBodyNext("backup", out)
                   /\ snapshot' = LocalPath("tmpdir", name)
                   /\ fs' = fs \cup {"tmpdir/snapshot"}
                   /\ calls' = calls2
                   /\ UNCHANGED <<pc, result, exc, inflight, hist, listed_objects, keys_to_delete>>
    /\ UNCHANGED <<cfg, next_run, now, base, deleted_count, ret, repo, dbcontent, rst, sto, proc>>

Upload ==
    /\ job = "upload"
    /\ \E dt \in 0 .. MaxStep, out \in StorageOutcomes :
        /\ Elapse(dt)
        /\ LET calls2 == Append(calls, Call("upload", out, RemoteKey(snapshot), "", <<>>))
           IN /\ repo' = IF out = "ok"
                         THEN StoreUpload(repo, RemoteKey(snapshot), dbcontent, clock')
                         ELSE repo
              /\ IF TryBodyNext("upload", out) = "raise"
                 THEN JobReturn(Raised(out, "none"), ExceptResult(out), clock', calls2,
                                TempDirExit(fs))
                 ELSE /\ job' = TryBodyNext("upload", out)
                      /\ fs' = TempDirExit(fs)
                      /\ calls' = calls2
                      /\ UNCHANGED <<pc, result, exc, inflight, hist, listed_objects,
                                     keys_to_delete, snapshot>>
    /\ UNCHANGED <<cfg, next_run, now, base, deleted_count, ret, dbcontent, rst, sto, proc>>

---------------------------------------------------------------------------
(* cleanup_old_backups (retention.py), as run_backup_job calls it *)

\* the ages of the objects a listing may hold: new, at the cutoff, past it
ListedAges(d) == {0, d * Day, d * Day + 1}

\* the objects storage.list(prefix) may return at time t: backups of the database
ListedObjects(t) ==
    {StorageObject(BackupName(cfg.database, t - a, cfg.extension), UtcDatetime(t - a)) :
        a \in ListedAges(cfg.retention_days)}

\* what storage.list(prefix) may return at time t, the capability promising no
\* order: the objects of the repository under the prefix or, of a repository the
\* model does not look into, any objects
Listings(prefix, t) ==
    IF repo.tracked
    THEN Orderings(StoreList(repo, prefix))
    ELSE {s \in UNION {[1 .. n -> ListedObjects(t)] : n \in 0 .. MaxListing} :
            \A i, j \in 1 .. Len(s) : s[i].key = s[j].key => i = j}

\* a cleanup that goes on to delete_many whatever the list of expired is
AlwaysDeletes(expired) == FALSE

\* if not expired: return 0
NothingExpired(expired) == expired = <<>>

\* objects = storage.list(prefix=prefix); expired = get_expired_backups(objects,
\* retention_days); if not expired: return 0
CleanupList ==
    /\ job = "list"
    /\ \E dt \in 0 .. MaxStep, out \in StorageOutcomes :
        /\ Elapse(dt)
        /\ LET calls2 == Append(calls, Call("list", out, NoSnapshot, CleanupPrefix, <<>>))
           IN IF out # "ok"
              THEN /\ JobReturn(CleanupRaises(out), ExceptResult(CleanupRaises(out).type),
                                clock', calls2, fs)
                   /\ UNCHANGED deleted_count
              ELSE \E listed \in Listings(CleanupPrefix, clock') :
                    LET expired == get_expired_backups(listed, cfg.retention_days,
                                                       UtcNow(clock'))
                    IN IF NothingExpired(expired)
                       THEN /\ JobReturn(NoException, "True", clock', calls2, fs)
                            /\ deleted_count' = 0
                       ELSE /\ job' = "delete"
                            /\ listed_objects' = listed
                            /\ keys_to_delete' = KeysOf(expired)
                            /\ calls' = calls2
                            /\ UNCHANGED <<pc, result, exc, inflight, hist, snapshot, fs,
                                           deleted_count>>
    /\ UNCHANGED <<cfg, next_run, now, base, ret, repo, dbcontent, rst, sto, proc>>

\* storage.delete_many(keys_to_delete); return len(expired)
CleanupDelete ==
    /\ job = "delete"
    /\ \E dt \in 0 .. MaxStep, out \in StorageOutcomes :
        /\ Elapse(dt)
        /\ LET calls2 == Append(calls, Call("delete_many", out, NoSnapshot, "",
                                            keys_to_delete))
           IN IF out # "ok"
              THEN /\ JobReturn(CleanupRaises(out), ExceptResult(CleanupRaises(out).type),
                                clock', calls2, fs)
                   /\ repo' \in StoreDeleteFailed(repo, keys_to_delete)
                   /\ UNCHANGED deleted_count
              ELSE /\ JobReturn(NoException, "True", clock', calls2, fs)
                   /\ repo' = StoreDelete(repo, SeqToSet(keys_to_delete))
                   /\ deleted_count' = Len(keys_to_delete)
    /\ UNCHANGED <<cfg, next_run, now, base, ret, dbcontent, rst, sto, proc>>

---------------------------------------------------------------------------
(* run_scheduler (scheduler.py) *)

\* an initial backup whatever the flag says
AlwaysRunsInitialBackup == TRUE

\* if run_immediately:
RunsInitialBackup == cfg.run_immediately

StartImmediate ==
    /\ pc = "start"
    /\ RunsInitialBackup
    /\ pc' = "call"
    /\ UNCHANGED <<clock, cfg, next_run, now, base, job, snapshot, listed_objects,
                   keys_to_delete, deleted_count, fs, result, exc, calls, inflight,
                   hist, ret, repo, dbcontent, rst, sto, proc>>

StartSkip ==
    /\ pc = "start"
    /\ ~RunsInitialBackup
    /\ pc' = "loop"
    /\ UNCHANGED <<clock, cfg, next_run, now, base, job, snapshot, listed_objects,
                   keys_to_delete, deleted_count, fs, result, exc, calls, inflight,
                   hist, ret, repo, dbcontent, rst, sto, proc>>

RECURSIVE NthOccurrenceAfter(_, _, _)
NthOccurrenceAfter(sched, t, n) ==
    IF n = 0 THEN t ELSE NthOccurrenceAfter(sched, NextCron(sched, t), n - 1)

\* one croniter made when run_scheduler begins and kept over the iterations: each
\* get_next goes on from the occurrence before it
BaseTimeOfKeptIterator ==
    NthOccurrenceAfter(cfg.backup_schedule, hist.start, hist.nComputed)

\* get_next_run_time(cron_expression): base_time = datetime.now(timezone.utc)
BaseTime == clock

GetNextRunTime ==
    /\ pc = "loop"
    /\ base' = BaseTime
    /\ next_run' = NextCron(cfg.backup_schedule, base')
    /\ pc' = "next"
    /\ hist' = [hist EXCEPT !.computed = TRUE, !.nComputed = @ + 1]
    /\ calls' = <<>>
    /\ deleted_count' = NoCount
    /\ UNCHANGED <<clock, cfg, now, job, snapshot, listed_objects, keys_to_delete, fs,
                   result, exc, inflight, ret, repo, dbcontent, rst, sto, proc>>

\* now = datetime.now(timezone.utc)
ReadNow ==
    /\ pc = "next"
    /\ \E dt \in 0 .. MaxStep : Elapse(dt)
    /\ now' = clock'
    /\ pc' = "wait"
    /\ UNCHANGED <<cfg, next_run, base, job, snapshot, listed_objects, keys_to_delete,
                   deleted_count, fs, result, exc, calls, inflight, hist, ret, repo, dbcontent, rst, sto, proc>>

\* wait_seconds = (next_run - now).total_seconds()
WaitSeconds == next_run - now

\* a loop that never sleeps
NeverSleeps(wait_seconds) == FALSE

\* a loop that sleeps whatever the wait is
AlwaysSleeps(wait_seconds) == TRUE

\* if wait_seconds > 0:
ShouldSleep(wait_seconds) == wait_seconds > 0

\* time.sleep(secs) suspends for at least secs
SleepDurations(secs) == secs .. secs + MaxStep

Sleep ==
    /\ pc = "wait"
    /\ ShouldSleep(WaitSeconds)
    /\ \E dt \in SleepDurations(WaitSeconds) : Elapse(dt)
    /\ pc' = "call"
    /\ UNCHANGED <<cfg, next_run, now, base, job, snapshot, listed_objects, keys_to_delete,
                   deleted_count, fs, result, exc, calls, inflight, hist, ret, repo, dbcontent, rst, sto, proc>>

NoSleep ==
    /\ pc = "wait"
    /\ ~ShouldSleep(WaitSeconds)
    /\ pc' = "call"
    /\ UNCHANGED <<clock, cfg, next_run, now, base, job, snapshot, listed_objects,
                   keys_to_delete, deleted_count, fs, result, exc, calls, inflight,
                   hist, ret, repo, dbcontent, rst, sto, proc>>

Next ==
    \/ StartImmediate
    \/ StartSkip
    \/ GetNextRunTime
    \/ ReadNow
    \/ Sleep
    \/ NoSleep
    \/ JobBegin
    \/ Backup
    \/ Upload
    \/ CleanupList
    \/ CleanupDelete

Spec == Init /\ [][Next]_vars

---------------------------------------------------------------------------
(* The scheduler over unbounded time.  The schedule repeats every Day, so a  *)
(* run is unchanged when the origin of time is moved on by one Day; this is  *)
(* done at the top of the loop, where no local that holds a time is live,    *)
(* and the history starts again there.                                       *)

RebaseDue == pc = "loop" /\ clock >= Day

Rebase ==
    /\ RebaseDue
    /\ clock' = clock - Day
    /\ next_run' = NoTime
    /\ now' = NoTime
    /\ base' = NoTime
    /\ calls' = <<>>
    /\ hist' = [HistInit(clock') EXCEPT !.computed = hist.computed,
                                        !.nStartup = hist.nStartup,
                                        !.nStartupDone = hist.nStartupDone,
                                        !.lastEnd = clock']
    /\ UNCHANGED <<cfg, pc, job, snapshot, listed_objects, keys_to_delete, deleted_count,
                   fs, result, exc, inflight, ret, repo, dbcontent, rst, sto, proc>>

LiveNext == Rebase \/ (~RebaseDue /\ Next)

\* run_scheduler is one sequential thread: it takes its next step, every call
\* of a job returns, and time goes on
LiveSpec == Init /\ [][LiveNext]_vars /\ WF_vars(LiveNext)

---------------------------------------------------------------------------
(* One Backup Job against a repository the model looks into: the initial     *)
(* backup of run_scheduler, with backups of several databases in the bucket  *)

\* the databases that keep their backups in the bucket
RepoDatabases == {"app", "app_prod", "web"}

\* what the databases held when their older backups were taken
OlderContent == "rows1"

\* the backups that may be in the bucket at time t: of every database, a new one,
\* one at the cutoff of the window d and one past it
StoredBackups(t, d, ext) ==
    {Stored(BackupName(name, t - a, ext), UtcDatetime(t - a), OlderContent) :
        name \in RepoDatabases, a \in ListedAges(d)}

JobInit ==
    /\ SchedInit
    /\ cfg.run_immediately
    /\ cfg.backup_schedule = {0}
    /\ ret = RetIdle
    /\ dbcontent = InitialContent
    /\ rst = RestoreIdle
    /\ sto = StorageIdle
    /\ proc = MainIdle
    /\ \E stored \in SUBSET StoredBackups(clock, cfg.retention_days, cfg.extension) :
        /\ Cardinality(stored) <= MaxListing
        /\ repo = Tracked(stored)

JobNext ==
    \/ StartImmediate
    \/ JobBegin
    \/ Backup
    \/ Upload
    \/ CleanupList
    \/ CleanupDelete

JobSpec == JobInit /\ [][JobNext]_vars

---------------------------------------------------------------------------
(* Restore Workflow (restore.py), as run_restore calls it: one call of        *)
(* list_available_backups, restore_backup or restore_latest_backup            *)

\* the methods of a storage adapter: those StorageAdapter declares and its
\* subclasses S3StorageAdapter, R2StorageAdapter, BackblazeStorageAdapter define
StorageAdapterMethods == {"upload", "list", "delete", "delete_many"}

\* storage_adapter.<name>(...): how the call may end; the lookup of a method the
\* adapter does not have raises AttributeError
MethodOutcomes(name, outcomes) ==
    IF name \in StorageAdapterMethods THEN outcomes ELSE {"AttributeError"}

\* a sort without reverse=True: the object goes behind those not newer than it
InsertOldestFirst(sorted, o) ==
    LET newer == {i \in 1 .. Len(sorted) : DtLess(o.last_modified, sorted[i].last_modified)}
        at == IF newer = {} THEN Len(sorted) + 1
              ELSE CHOOSE i \in newer : \A j \in newer : i <= j
    IN SubSeq(sorted, 1, at - 1) \o <<o>> \o SubSeq(sorted, at, Len(sorted))

\* one step of objects.sort(key=lambda x: x.last_modified, reverse=True), a stable
\* sort: the object goes behind those not older than it, before the first older one
InsertNewestFirst(sorted, o) ==
    LET older == {i \in 1 .. Len(sorted) : DtLess(sorted[i].last_modified, o.last_modified)}
        at == IF older = {} THEN Len(sorted) + 1
              ELSE CHOOSE i \in older : \A j \in older : i <= j
    IN SubSeq(sorted, 1, at - 1) \o <<o>> \o SubSeq(sorted, at, Len(sorted))

RECURSIVE SortNewestFirst(_, _)
SortNewestFirst(objects, sorted) ==
    IF objects = <<>>
    THEN sorted
    ELSE SortNewestFirst(Tail(objects), InsertNewestFirst(sorted, Head(objects)))

\* list_available_backups, from the listing on: sort, then the keys
list_available_backups(objects) == KeysOf(SortNewestFirst(objects, <<>>))

\* a listing of the whole bucket
RestoreNoPrefix == ""

\* prefix = database_name or ""
RestorePrefix == cfg.database

\* a capability call of the workflow: how it ended and the key it was given
RestoreCall(op, out, key) == [op |-> op, out |-> out, key |-> key]

\* the except clauses without the last one, `except Exception`
RestoreExceptNoCatchAll(e) ==
    IF IsInstance(e, "StorageError") THEN "False"
    ELSE IF IsInstance(e, "BackupError") THEN "False"
    ELSE "raised"

\* the except clauses of restore_backup: what the call does with exception e
RestoreExceptResult(e) ==
    IF IsInstance(e, "StorageError") THEN "False"
    ELSE IF IsInstance(e, "BackupError") THEN "False"
    ELSE IF IsInstance(e, "Exception") THEN "False"
    ELSE "raised"

\* a key no object of the repository has
MissingKey == BackupName(cfg.database, clock + 1, cfg.extension)

IsStored(key) == \E o \in repo.objects : o.key = key

ContentOf(key) == (CHOOSE o \in repo.objects : o.key = key).content

\* storage_adapter.download(backup_key, local_file)
DownloadOutcomes(key) ==
    MethodOutcomes("download",
                   IF IsStored(key) THEN StorageOutcomes ELSE StorageOutcomes \ {"ok"})

\* what a restore that failed may have left of the database
PartlyRestored == "partly restored"

\* a listing that takes what it lists out of the bucket
ListingConsumes(r, prefix) ==
    StoreDelete(r, {o.key : o \in {x \in r.objects : UnderPrefix(x.key, prefix)}})

\* storage_adapter.list reads the bucket: the bucket after it
StoreAfterList(r, prefix) == r

\* list_available_backups(storage_adapter, database_name), called on its own: no
\* try is around storage_adapter.list
ListAvailableBackups ==
    /\ rst.pc = "idle"
    /\ \E out \in MethodOutcomes("list", StorageOutcomes) :
        LET calls2 == <<RestoreCall("list", out, NoSnapshot)>>
        IN IF out # "ok"
           THEN rst' = [rst EXCEPT !.op = "list_available_backups", !.pc = "done",
                                   !.result = "raised", !.exc = Raised(out, "none"),
                                   !.calls = calls2]
           ELSE \E listed \in Listings(RestorePrefix, clock) :
                 rst' = [rst EXCEPT !.op = "list_available_backups", !.pc = "done",
                                    !.result = "returned", !.listed = listed,
                                    !.backups = list_available_backups(listed),
                                    !.calls = calls2]
    /\ repo' = StoreAfterList(repo, RestorePrefix)
    /\ UNCHANGED <<loopVars, ret, dbcontent, sto, proc>>

\* restore_latest_backup, up to its call of restore_backup: backups =
\* list_available_backups(...); if not backups: return False; latest = backups[0]
RestoreLatestList ==
    /\ rst.pc = "idle"
    /\ \E out \in MethodOutcomes("list", StorageOutcomes) :
        LET calls2 == <<RestoreCall("list", out, NoSnapshot)>>
        IN IF out # "ok"
           THEN rst' = [rst EXCEPT !.op = "restore_latest_backup", !.pc = "done",
                                   !.result = "raised", !.exc = Raised(out, "none"),
                                   !.calls = calls2]
           ELSE \E listed \in Listings(RestorePrefix, clock) :
                 LET backups == list_available_backups(listed)
                 IN IF backups = <<>>
                    THEN rst' = [rst EXCEPT !.op = "restore_latest_backup",
                                            !.pc = "done", !.result = "False",
                                            !.listed = listed, !.backups = backups,
                                            !.calls = calls2]
                    ELSE rst' = [rst EXCEPT !.op = "restore_latest_backup",
                                            !.pc = "restore", !.listed = listed,
                                            !.backups = backups,
                                            !.backup_key = backups[1],
                                            !.calls = calls2]
    /\ repo' = StoreAfterList(repo, RestorePrefix)
    /\ UNCHANGED <<loopVars, ret, dbcontent, sto, proc>>

\* restore_backup(storage_adapter, backup_adapter, backup_key) called by
\* run_restore with the key of --backup
RestoreBackupCall ==
    /\ rst.pc = "idle"
    /\ \E key \in {o.key : o \in repo.objects} \cup {MissingKey} :
        rst' = [rst EXCEPT !.op = "restore_backup", !.pc = "restore", !.backup_key = key]
    /\ UNCHANGED <<loopVars, ret, repo, dbcontent, sto, proc>>

\* the end of restore_backup: the temporary directory is left, then the return
RestoreReturn(res, e, calls2) ==
    rst' = [rst EXCEPT !.pc = "done", !.result = res, !.exc = e, !.calls = calls2,
                       !.tmp = TempDirExit({"tmpdir", "tmpdir/snapshot"})]

\* the body of restore_backup: download into the temporary directory, restore
RestoreBackup ==
    /\ rst.pc = "restore"
    /\ \E dout \in DownloadOutcomes(rst.backup_key), rout \in BackupOutcomes :
        LET calls2 == Append(rst.calls, RestoreCall("download", dout, rst.backup_key))
            calls3 == Append(calls2, RestoreCall("restore", rout, rst.backup_key))
        IN IF dout # "ok"
           THEN /\ RestoreReturn(RestoreExceptResult(dout), Raised(dout, "none"), calls2)
                /\ UNCHANGED dbcontent
           ELSE IF rout # "ok"
                THEN /\ RestoreReturn(RestoreExceptResult(rout), Raised(rout, "none"),
                                      calls3)
                     /\ dbcontent' \in {dbcontent, PartlyRestored}
                ELSE /\ RestoreReturn("True", NoException, calls3)
                     /\ dbcontent' = ContentOf(rst.backup_key)
    /\ UNCHANGED <<loopVars, ret, repo, sto, proc>>

\* the workflow is called again, by another run of the restore command
RestoreAgain ==
    /\ rst.pc = "done"
    /\ rst' = RestoreIdle
    /\ UNCHANGED <<loopVars, ret, repo, dbcontent, sto, proc>>

RestoreInit ==
    /\ clock = 0
    /\ cfg \in {c \in Configs : c.run_immediately /\ c.backup_schedule = {0}}
    /\ pc = "idle"
    /\ next_run = NoTime
    /\ now = NoTime
    /\ base = NoTime
    /\ job = "none"
    /\ snapshot = NoPath
    /\ listed_objects = <<>>
    /\ keys_to_delete = <<>>
    /\ deleted_count = NoCount
    /\ fs = {}
    /\ result = "none"
    /\ exc = NoException
    /\ calls = <<>>
    /\ inflight = 0
    /\ hist = HistInit(0)
    /\ ret = RetIdle
    /\ dbcontent = InitialContent
    /\ rst = RestoreIdle
    /\ sto = StorageIdle
    /\ proc = MainIdle
    /\ \E stored \in SUBSET StoredBackups(clock, cfg.retention_days, cfg.extension) :
        /\ Cardinality(stored) <= MaxListing
        /\ repo = Tracked(stored)

RestoreNext ==
    \/ ListAvailableBackups
    \/ RestoreLatestList
    \/ RestoreBackupCall
    \/ RestoreBackup
    \/ RestoreAgain

RestoreSpec == RestoreInit /\ [][RestoreNext]_vars

---------------------------------------------------------------------------
(* The storage adapters (storage/s3.py, storage/r2.py, storage/backblaze.py): *)
(* one adapter is constructed and one method of it is called, on a bucket the *)
(* model looks into                                                            *)

StorageVariants == {"s3", "r2", "backblaze"}

\* config.endpoint
Endpoints == {"", "https://r2"}

\* the 1000 of range(0, len(delete_objects), 1000) and of delete_objects[i : i + 1000]
BatchCap == 1000

\* the number of full batches the model goes up to
MaxBatches == 2

\* the number of objects one page of a listing holds
PageSize == 1

\* a call on the client of the adapter: how it ended, and the keys it was given
ClientCall(op, out, keys) == [op |-> op, out |-> out, keys |-> keys]

\* R2StorageAdapter.__init__ without its check of the endpoint
R2AcceptsAnyEndpoint(variant, endpoint) == "ok"

\* R2StorageAdapter.__init__ before super().__init__(config): if not config.endpoint
R2EndpointCheck(variant, endpoint) ==
    IF variant = "r2" /\ endpoint = "" THEN "ValueError" ELSE "ok"

\* the client of the adapter: boto3.client("s3", ...), or B2Api and its bucket,
\* whose B2Error is raised as StorageError
ClientOutcomes(variant) == IF variant = "backblaze" THEN {"ok", "StorageError"} ELSE {"ok"}

\* _get_required_env(name): a variable that is not set, or set to "", is missing
RequiredEnv(value) == IF value = "" THEN "ConfigError" ELSE "ok"

\* _load_s3_config(include_endpoint), as load_config calls it for the storage
\* types s3 and r2: S3_ENDPOINT is required for r2 and optional for s3
LoadS3Config(storage_type, endpoint) ==
    IF storage_type = "r2" THEN RequiredEnv(endpoint) ELSE "ok"

\* the storage part of load_config, for a caller that takes the configuration of
\* the adapter from the environment
StorageLoadConfig ==
    /\ sto.pc = "idle"
    /\ sto.op # "none"
    /\ ~sto.loaded
    /\ LET loaded == LoadS3Config(sto.variant, sto.endpoint)
       IN IF loaded # "ok"
          THEN sto' = [sto EXCEPT !.pc = "done", !.returned = "raised",
                                  !.exc = Raised(loaded, "none")]
          ELSE sto' = [sto EXCEPT !.loaded = TRUE]
    /\ UNCHANGED <<loopVars, ret, repo, dbcontent, rst, proc>>

\* __init__ of the adapter, with a configuration load_config made or with one
\* the caller made itself
StorageConstruct ==
    /\ sto.pc = "idle"
    /\ sto.op # "none"
    /\ LET checked == R2EndpointCheck(sto.variant, sto.endpoint)
       IN IF checked # "ok"
          THEN sto' = [sto EXCEPT !.pc = "done", !.returned = "raised",
                                  !.exc = Raised(checked, "none")]
          ELSE \E out \in ClientOutcomes(sto.variant) :
                IF out = "ok"
                THEN sto' = [sto EXCEPT !.pc = "constructed", !.client = TRUE]
                ELSE sto' = [sto EXCEPT !.pc = "done", !.returned = "raised",
                                        !.exc = Raised(out, "none")]
    /\ UNCHANGED <<loopVars, ret, repo, dbcontent, rst, proc>>

\* how client.delete_objects may end: every key of the batch is gone; or the
\* call returns and its response names, under "Errors", the keys that were not
\* deleted; or it raises
DeleteObjectsOutcomes == {"ok", "Errors", "ClientError", "BotoCoreError"}

\* range(0, len(delete_objects), 1000) going one key too far
NextIndexSkipping(i) == i + BatchCap + 1

\* the next i of range(0, len(delete_objects), 1000)
NextIndex(i) == i + BatchCap

Min(a, b) == IF a <= b THEN a ELSE b

\* delete_objects[i : i + 1000]
Batch(delete_objects, i) ==
    SubSeq(delete_objects, i + 1, Min(i + BatchCap, Len(delete_objects)))

\* the bucket after a delete_objects of this batch that ended with out: on
\* "Errors" the first key of the batch, or every key, is still there; a call
\* that raised has deleted nothing, or everything
AfterDeleteObjects(r, batch, out) ==
    CASE out = "ok"     -> {StoreDelete(r, SeqToSet(batch))}
      [] out = "Errors" -> {StoreDelete(r, SeqToSet(Tail(batch))), r}
      [] OTHER          -> {r, StoreDelete(r, SeqToSet(batch))}

\* S3StorageAdapter.delete_many, up to its loop: if not remote_keys: return
S3DeleteMany ==
    /\ sto.pc = "constructed"
    /\ sto.op = "delete_many"
    /\ sto.variant \in {"s3", "r2"}
    /\ IF sto.remote_keys = <<>>
       THEN sto' = [sto EXCEPT !.pc = "done", !.returned = "None"]
       ELSE sto' = [sto EXCEPT !.pc = "loop", !.i = 0]
    /\ UNCHANGED <<loopVars, ret, repo, dbcontent, rst, proc>>

\* one turn of the loop: the batch and client.delete_objects, whose response is
\* not looked at; BotoCoreError and ClientError are raised as StorageError
S3DeleteBatch ==
    /\ sto.pc = "loop"
    /\ sto.variant \in {"s3", "r2"}
    /\ LET batch == Batch(sto.remote_keys, sto.i)
       IN \E out \in DeleteObjectsOutcomes :
            /\ repo' \in AfterDeleteObjects(repo, batch, out)
            /\ LET calls2 == Append(sto.client_calls,
                                    ClientCall("delete_objects", out, batch))
               IN IF out \in {"ClientError", "BotoCoreError"}
                  THEN sto' = [sto EXCEPT !.pc = "done", !.returned = "raised",
                                          !.exc = Raised("StorageError", "none"),
                                          !.client_calls = calls2]
                  ELSE IF NextIndex(sto.i) < Len(sto.remote_keys)
                       THEN sto' = [sto EXCEPT !.i = NextIndex(sto.i),
                                               !.client_calls = calls2]
                       ELSE sto' = [sto EXCEPT !.pc = "done", !.returned = "None",
                                               !.client_calls = calls2]
    /\ UNCHANGED <<loopVars, ret, dbcontent, rst, proc>>

\* a name as the folder b2sdk lists: bucket.ls(folder_to_list=name) yields the
\* files of that folder, those whose name begins with the name and "/"; the
\* empty name is the top of the bucket
FolderText(text) ==
    IF text = <<>> THEN text
    ELSE IF text[Len(text)] = "/" THEN text
    ELSE text \o <<"/">>

\* bucket.ls(folder_to_list=folder): the file versions in that folder
B2Ls(r, folder) == {o \in r.objects : StartsWith(KeyText(o.key), FolderText(folder))}

\* how bucket.ls and api.delete_file_version may end; B2Error is raised as
\* StorageError
B2Outcomes == {"ok", "B2Error"}

\* BackblazeStorageAdapter.delete_many, up to its loop: if not remote_keys: return
B2DeleteMany ==
    /\ sto.pc = "constructed"
    /\ sto.op = "delete_many"
    /\ sto.variant = "backblaze"
    /\ IF sto.remote_keys = <<>>
       THEN sto' = [sto EXCEPT !.pc = "done", !.returned = "None"]
       ELSE sto' = [sto EXCEPT !.pc = "loop", !.i = 0]
    /\ UNCHANGED <<loopVars, ret, repo, dbcontent, rst, proc>>

\* one turn of the loop, self.delete(key): the versions bucket.ls yields for
\* folder_to_list=remote_key, and delete_file_version of those named remote_key
B2Delete ==
    /\ sto.pc = "loop"
    /\ sto.variant = "backblaze"
    /\ LET remote_key == sto.remote_keys[sto.i + 1]
           file_versions == B2Ls(repo, KeyText(remote_key))
           named == {o.key : o \in {v \in file_versions : v.key = remote_key}}
       IN \E out \in B2Outcomes :
            LET calls2 == Append(sto.client_calls, ClientCall("ls", out, <<remote_key>>))
            IN IF out # "ok"
               THEN /\ sto' = [sto EXCEPT !.pc = "done", !.returned = "raised",
                                          !.exc = Raised("StorageError", "none"),
                                          !.client_calls = calls2]
                    /\ UNCHANGED repo
               ELSE /\ repo' = StoreDelete(repo, named)
                    /\ IF sto.i + 1 < Len(sto.remote_keys)
                       THEN sto' = [sto EXCEPT !.i = sto.i + 1, !.client_calls = calls2]
                       ELSE sto' = [sto EXCEPT !.pc = "done", !.returned = "None",
                                               !.client_calls = calls2]
    /\ UNCHANGED <<loopVars, ret, dbcontent, rst, proc>>

\* how the pages of list_objects_v2 may end
ListOutcomes == {"ok", "ClientError", "BotoCoreError"}

\* the pages paginator.paginate yields for a listing
RECURSIVE Pages(_)
Pages(listing) ==
    IF listing = <<>> THEN <<>>
    ELSE <<SubSeq(listing, 1, Min(PageSize, Len(listing)))>>
         \o Pages(SubSeq(listing, PageSize + 1, Len(listing)))

\* for page in ...: for obj in page.get("Contents", []): objects.append(...)
RECURSIVE ReadPages(_, _)
ReadPages(pages, objects) ==
    IF pages = <<>> THEN objects ELSE ReadPages(Tail(pages), objects \o Head(pages))

\* S3StorageAdapter.list(prefix)
S3List ==
    /\ sto.pc = "constructed"
    /\ sto.op = "list"
    /\ sto.variant \in {"s3", "r2"}
    /\ \E out \in ListOutcomes :
        LET calls2 == <<ClientCall("list_objects_v2", out, <<>>)>>
        IN IF out # "ok"
           THEN sto' = [sto EXCEPT !.pc = "done", !.returned = "raised",
                                   !.exc = Raised("StorageError", "none"),
                                   !.client_calls = calls2]
           ELSE \E listing \in Orderings(StoreList(repo, sto.prefix)) :
                 sto' = [sto EXCEPT !.pc = "done", !.returned = "objects",
                                    !.objects = ReadPages(Pages(listing), <<>>),
                                    !.client_calls = calls2]
    /\ UNCHANGED <<loopVars, ret, repo, dbcontent, rst, proc>>

\* file_version.upload_timestamp: a number, not a datetime
UploadTimestamp(o) == o.last_modified.t

\* BackblazeStorageAdapter.list(prefix)
B2List ==
    /\ sto.pc = "constructed"
    /\ sto.op = "list"
    /\ sto.variant = "backblaze"
    /\ \E out \in B2Outcomes :
        LET calls2 == <<ClientCall("ls", out, <<>>)>>
        IN IF out # "ok"
           THEN sto' = [sto EXCEPT !.pc = "done", !.returned = "raised",
                                   !.exc = Raised("StorageError", "none"),
                                   !.client_calls = calls2]
           ELSE \E listing \in Orderings(B2Ls(repo, NameText(sto.prefix))) :
                 sto' = [sto EXCEPT !.pc = "done", !.returned = "objects",
                                    !.objects = [k \in 1 .. Len(listing) |->
                                                    StorageObject(listing[k].key,
                                                                  UploadTimestamp(listing[k]))],
                                    !.client_calls = calls2]
    /\ UNCHANGED <<loopVars, ret, repo, dbcontent, rst, proc>>

\* the numbers of keys delete_many is given: a few, and those around every
\* multiple of the cap and half-way between the first two
KeyCounts ==
    {0, 1, 2} \cup {k * BatchCap + e : k \in 1 .. MaxBatches, e \in {0 - 1, 0, 1}}
              \cup {BatchCap + BatchCap \div 2}

\* n keys of backups of one database
NumberedKeys(n) == [k \in 1 .. n |-> BackupName("app", k, "sql.gz")]

Reversed(s) == [k \in 1 .. Len(s) |-> s[Len(s) + 1 - k]]

\* an object of the bucket that no delete_many is given the key of
Bystander == Stored(BackupName("web", 0, "sql.gz"), UtcDatetime(0), OlderContent)

\* the objects of these keys
StoredUnder(keys) == {Stored(key, UtcDatetime(0), OlderContent) : key \in keys}

\* the calls made on an adapter: delete_many with n keys in either order, the
\* bucket holding them all or all but the first (S3 and R2: n around the
\* multiples of the cap; Backblaze, one delete per key: a few keys), or list
\* with a prefix on a bucket of a few backups
StorageRequests(variant) ==
    UNION {{[op |-> "delete_many", remote_keys |-> keys, prefix |-> "",
             stored |-> StoredUnder(SeqToSet(keys) \ gone) \cup {Bystander}] :
                keys \in {NumberedKeys(n), Reversed(NumberedKeys(n))},
                gone \in {{}, {BackupName("app", 1, "sql.gz")}}} :
            n \in IF variant = "backblaze" THEN 0 .. MaxListing ELSE KeyCounts}
    \cup
    {[op |-> "list", remote_keys |-> <<>>, prefix |-> prefix, stored |-> stored] :
        prefix \in {"", "app", "web"},
        stored \in {s \in SUBSET StoredBackups(0, 1, "sql.gz") :
                        Cardinality(s) <= MaxListing}}

StorageInit ==
    /\ clock = 0
    /\ cfg = CHOOSE c \in Configs : TRUE
    /\ pc = "idle"
    /\ next_run = NoTime
    /\ now = NoTime
    /\ base = NoTime
    /\ job = "none"
    /\ snapshot = NoPath
    /\ listed_objects = <<>>
    /\ keys_to_delete = <<>>
    /\ deleted_count = NoCount
    /\ fs = {}
    /\ result = "none"
    /\ exc = NoException
    /\ calls = <<>>
    /\ inflight = 0
    /\ hist = HistInit(0)
    /\ ret = RetIdle
    /\ dbcontent = InitialContent
    /\ rst = RestoreIdle
    /\ proc = MainIdle
    /\ \E variant \in StorageVariants, endpoint \in Endpoints :
        \E request \in StorageRequests(variant) :
            /\ sto = [StorageIdle EXCEPT !.variant = variant, !.endpoint = endpoint,
                                         !.op = request.op,
                                         !.remote_keys = request.remote_keys,
                                         !.prefix = request.prefix]
            /\ repo = Tracked(request.stored)

StorageNext ==
    \/ StorageLoadConfig
    \/ StorageConstruct
    \/ S3DeleteMany
    \/ S3DeleteBatch
    \/ B2DeleteMany
    \/ B2Delete
    \/ S3List
    \/ B2List

StorageSpec == StorageInit /\ [][StorageNext]_vars

---------------------------------------------------------------------------
(* main (main.py) with load_config (config.py): one run of the process.      *)
(* LOG_LEVEL, the credentials and the connection parameters of the          *)
(* environment are taken as set and valid.                                   *)

\* a value of BACKUP_SCHEDULE that croniter takes, with the schedule it stands for
CronExpression(schedule) == [kind |-> "cron", schedule |-> schedule]

\* a value of BACKUP_SCHEDULE that croniter rejects
InvalidCron == [kind |-> "invalid", schedule |-> {}]

\* a value of RETENTION_DAYS that int() takes
IntText(n) == [kind |-> "int", value |-> n]

\* a value of RETENTION_DAYS that int() rejects
NotAnInt == [kind |-> "text", value |-> 0]

\* the values of DATABASE_TYPE load_config takes
DatabaseTypes == {"postgres", "mongodb"}

\* _validate_cron(expression): ValueError and KeyError of croniter(expression)
\* are raised as ConfigError
ValidateCron(expression) == IF expression.kind = "cron" THEN "ok" ELSE "ConfigError"

\* _get_int_env(name): a missing variable and a ValueError of int(value) are
\* raised as ConfigError
GetIntEnv(text) == IF text.kind = "int" THEN "ok" ELSE "ConfigError"

\* a load_config without the check of the retention window
RetentionNeverTooSmall(retention_days) == FALSE

\* if retention_days < 1
RetentionTooSmall(retention_days) == retention_days < 1

\* load_config(): "ok", or the exception that the first check to fail raises
LoadConfig(env) ==
    IF RequiredEnv(env.DATABASE_TYPE) # "ok" THEN "ConfigError"
    ELSE IF env.DATABASE_TYPE \notin DatabaseTypes THEN "ConfigError"
    ELSE IF RequiredEnv(env.STORAGE_TYPE) # "ok" THEN "ConfigError"
    ELSE IF env.STORAGE_TYPE \notin StorageVariants THEN "ConfigError"
    ELSE IF env.BACKUP_SCHEDULE.kind = "missing" THEN "ConfigError"
    ELSE IF ValidateCron(env.BACKUP_SCHEDULE) # "ok" THEN "ConfigError"
    ELSE IF GetIntEnv(env.RETENTION_DAYS) # "ok" THEN "ConfigError"
    ELSE IF RetentionTooSmall(env.RETENTION_DAYS.value) THEN "ConfigError"
    ELSE LoadS3Config(env.STORAGE_TYPE, env.S3_ENDPOINT)

\* the Config load_config returns and the backup adapter made of it, with the
\* run_immediately main leaves at its default
ConfigOf(env) ==
    LET a == CHOOSE a \in BackupAdapters : TRUE
    IN [backup_schedule |-> env.BACKUP_SCHEDULE.schedule,
        retention_days |-> env.RETENTION_DAYS.value, run_immediately |-> TRUE,
        database |-> a.database, extension |-> a.extension]

\* no configuration has been loaded
NoConfig ==
    [backup_schedule |-> {}, retention_days |-> 0, run_immediately |-> TRUE,
     database |-> "", extension |-> ""]

\* the except clauses of main: the exit code it returns for exception e
MainExcept(e) ==
    IF IsInstance(e, "ConfigError") THEN 1
    ELSE IF IsInstance(e, "NestVaultError") THEN 1
    ELSE IF IsInstance(e, "KeyboardInterrupt") THEN 0
    ELSE IF IsInstance(e, "Exception") THEN 1
    ELSE NoCount

\* a main that takes no command for restore
NeverRestoreCommand(args) == FALSE

\* if args.command == "restore":
IsRestoreCommand(args) == args.command = "restore"

\* a run_restore that returns 0 whatever the restore returned
RestoreExitCodeAlwaysZero(success) == 0

\* return 0 if success else 1
RestoreExitCode(success) == IF success THEN 0 ELSE 1

\* main returns code, having caught e (or nothing)
MainReturn(code, e) == [proc EXCEPT !.pc = "exit", !.exit_code = code, !.exc = e]

\* config = load_config(), and the except clauses when it raises
MainLoadConfig ==
    /\ proc.pc = "main"
    /\ LET loaded == LoadConfig(proc.env)
       IN IF loaded # "ok"
          THEN /\ proc' = MainReturn(MainExcept(loaded), Raised(loaded, "none"))
               /\ UNCHANGED cfg
          ELSE /\ cfg' = ConfigOf(proc.env)
               /\ proc' = [proc EXCEPT !.pc = "configured"]
    /\ UNCHANGED <<clock, pc, next_run, now, base, job, snapshot, listed_objects,
                   keys_to_delete, deleted_count, fs, result, exc, calls, inflight,
                   hist, ret, repo, dbcontent, rst, sto>>

\* create_backup_adapter and create_storage_adapter, as run_restore and main
\* call them first; then main is in run_restore or in run_scheduler
MainCreateAdapters ==
    /\ proc.pc = "configured"
    /\ LET checked == R2EndpointCheck(proc.env.STORAGE_TYPE, proc.env.S3_ENDPOINT)
       IN \E out \in ClientOutcomes(proc.env.STORAGE_TYPE) :
            LET e == IF checked # "ok" THEN checked ELSE out
            IN IF e # "ok"
               THEN /\ proc' = [MainReturn(MainExcept(e), Raised(e, "none"))
                                    EXCEPT !.backup_adapter = TRUE]
                    /\ UNCHANGED <<pc, hist>>
               ELSE IF IsRestoreCommand(proc.args)
                    THEN /\ proc' = [proc EXCEPT !.pc = "run_restore",
                                                 !.backup_adapter = TRUE,
                                                 !.storage_adapter = TRUE]
                         /\ UNCHANGED <<pc, hist>>
                    ELSE /\ proc' = [proc EXCEPT !.pc = "run_scheduler",
                                                 !.backup_adapter = TRUE,
                                                 !.storage_adapter = TRUE]
                         /\ pc' = "start"
                         /\ hist' = HistInit(clock)
    /\ UNCHANGED <<clock, cfg, next_run, now, base, job, snapshot, listed_objects,
                   keys_to_delete, deleted_count, fs, result, exc, calls, inflight,
                   ret, repo, dbcontent, rst, sto>>

\* run_restore with --list
MainListBackups ==
    /\ proc.pc = "run_restore"
    /\ proc.args.list
    /\ ListAvailableBackups

\* run_restore with --backup: restore_backup(..., args.backup)
MainRestoreNamed ==
    /\ proc.pc = "run_restore"
    /\ ~proc.args.list
    /\ proc.args.backup # NoSnapshot
    /\ rst.pc = "idle"
    /\ rst' = [rst EXCEPT !.op = "restore_backup", !.pc = "restore",
                          !.backup_key = proc.args.backup]
    /\ UNCHANGED <<loopVars, ret, repo, dbcontent, sto, proc>>

\* run_restore with neither: restore_latest_backup
MainRestoreLatest ==
    /\ proc.pc = "run_restore"
    /\ ~proc.args.list
    /\ proc.args.backup = NoSnapshot
    /\ RestoreLatestList

MainRestoreBackup ==
    /\ proc.pc = "run_restore"
    /\ RestoreBackup

\* the end of run_restore: return 0 after a listing, 0 if success else 1 after
\* a restore; what the workflow raised goes to the except clauses of main
MainRestoreReturn ==
    /\ proc.pc = "run_restore"
    /\ rst.pc = "done"
    /\ proc' = IF rst.result = "raised"
               THEN MainReturn(MainExcept(rst.exc.type), rst.exc)
               ELSE IF proc.args.list
                    THEN MainReturn(0, NoException)
                    ELSE MainReturn(RestoreExitCode(rst.result = "True"), NoException)
    /\ UNCHANGED <<loopVars, ret, repo, dbcontent, rst, sto>>

\* run_scheduler(config, backup_adapter, storage_adapter), which never returns
MainRunScheduler ==
    /\ proc.pc = "run_scheduler"
    /\ \/ StartImmediate
       \/ GetNextRunTime
       \/ ReadNow
       \/ Sleep
       \/ NoSleep
       \/ JobBegin
       \/ Backup
       \/ Upload
       \/ CleanupList
       \/ CleanupDelete

\* a sleep that always lasts the time asked for
SleepRunsOut(secs) == {secs}

\* time.sleep(secs) with a KeyboardInterrupt raised in it: the sleep ends when the
\* signal arrives, before the time asked for has passed
InterruptedAfter(secs) == 0 .. secs - 1

\* the scheduler is at `time.sleep(wait_seconds)`
SchedulerSleeping ==
    proc.pc = "run_scheduler" /\ pc = "wait" /\ ShouldSleep(WaitSeconds)

\* KeyboardInterrupt while run_restore or run_scheduler is at work, in the sleep
\* of the scheduler or elsewhere: no except clause below main catches it, the
\* temporary directory of a job is left, and main returns 0
MainInterrupt ==
    /\ proc.pc \in {"run_restore", "run_scheduler"}
    /\ proc' = MainReturn(MainExcept("KeyboardInterrupt"),
                          Raised("KeyboardInterrupt", "none"))
    /\ fs' = TempDirExit(fs)
    /\ IF SchedulerSleeping
       THEN \E dt \in InterruptedAfter(WaitSeconds) : Elapse(dt)
       ELSE clock' = clock
    /\ UNCHANGED <<cfg, pc, next_run, now, base, job, snapshot, listed_objects,
                   keys_to_delete, deleted_count, result, exc, calls, inflight, hist,
                   ret, repo, dbcontent, rst, sto>>

\* the environments of a run: every variable missing, wrong or right
MainEnvs ==
    {[DATABASE_TYPE |-> d, STORAGE_TYPE |-> s, BACKUP_SCHEDULE |-> c,
      RETENTION_DAYS |-> r, S3_ENDPOINT |-> e] :
        d \in {"", "oracle", "postgres"},
        s \in {"", "ftp"} \cup StorageVariants,
        c \in {NoEnv.BACKUP_SCHEDULE, InvalidCron, CronExpression({0})},
        r \in {NoEnv.RETENTION_DAYS, NotAnInt, IntText(0), IntText(1),
               IntText(MaxRetention)},
        e \in Endpoints}

\* the backups in the bucket when a restore is asked for
MainStored ==
    {{}, StoredUnder({BackupName("app", 0 - Day, "sql.gz"), BackupName("app", 0, "sql.gz")})}

\* the command lines: no command, backup, and restore with --list, with
\* --backup and a key that is or is not in the bucket, or with neither
MainArgs ==
    {[command |-> c, list |-> FALSE, backup |-> NoSnapshot] : c \in {"", "backup", "restore"}}
    \cup {[command |-> "restore", list |-> TRUE, backup |-> NoSnapshot]}
    \cup {[command |-> "restore", list |-> FALSE, backup |-> BackupName("app", t, "sql.gz")] :
            t \in {0, 1}}

MainInit ==
    /\ clock = 0
    /\ cfg = NoConfig
    /\ pc = "idle"
    /\ next_run = NoTime
    /\ now = NoTime
    /\ base = NoTime
    /\ job = "none"
    /\ snapshot = NoPath
    /\ listed_objects = <<>>
    /\ keys_to_delete = <<>>
    /\ deleted_count = NoCount
    /\ fs = {}
    /\ result = "none"
    /\ exc = NoException
    /\ calls = <<>>
    /\ inflight = 0
    /\ hist = HistInit(0)
    /\ ret = RetIdle
    /\ dbcontent = InitialContent
    /\ rst = RestoreIdle
    /\ sto = StorageIdle
    /\ \E env \in MainEnvs, args \in MainArgs :
        /\ proc = [MainIdle EXCEPT !.pc = "main", !.env = env, !.args = args]
        /\ IF args.command = "restore"
           THEN \E stored \in MainStored : repo = Tracked(stored)
           ELSE repo = Untracked

MainNext ==
    \/ MainLoadConfig
    \/ MainCreateAdapters
    \/ MainListBackups
    \/ MainRestoreNamed
    \/ MainRestoreLatest
    \/ MainRestoreBackup
    \/ MainRestoreReturn
    \/ MainRunScheduler
    \/ MainInterrupt

MainSpec == MainInit /\ [][MainNext]_vars
---------------------------------------------------------------------------
(* One run of run_scheduler against a bucket the model looks into, empty     *)
(* when the run begins: what the successive Backup Jobs leave in it          *)

\* the run begins at the time origin, on a schedule of one tick a day
RunInit ==
    /\ SchedInit
    /\ clock = 0
    /\ Cardinality(cfg.backup_schedule) = 1
    /\ ret = RetIdle
    /\ dbcontent = InitialContent
    /\ rst = RestoreIdle
    /\ sto = StorageIdle
    /\ proc = MainIdle
    /\ repo = Tracked({})

RunSpec == RunInit /\ [][Next]_vars


---------------------------------------------------------------------------
(* get_expired_backups on its own, over bounded inputs *)

\* ages around the cutoff of every retention window, and a new object
RetAges == {0} \cup {d * Day + k : d \in 1 .. MaxRetention, k \in {-1, 0, 1}}

\* tzinfo of a last_modified: naive, UTC, or one unit east of UTC
RetZones == {<<FALSE, 0>>, <<TRUE, 0>>, <<TRUE, 1>>}

RetObjects(t) ==
    {StorageObject(BackupName("app", t - a, "sql.gz"), Datetime(t - a, z[1], z[2])) :
        a \in RetAges, z \in RetZones}

RetInit ==
    /\ \E t \in 0 .. 1, d \in 1 .. MaxRetention :
        \E objects \in UNION {[1 .. n -> RetObjects(t)] : n \in 0 .. MaxListing} :
            ret = [objects |-> objects, days |-> d, now |-> t, called |-> FALSE,
                   expired |-> <<>>]
    /\ clock = 0
    /\ cfg = CHOOSE c \in Configs : TRUE
    /\ pc = "idle"
    /\ next_run = NoTime
    /\ now = NoTime
    /\ base = NoTime
    /\ job = "none"
    /\ snapshot = NoPath
    /\ listed_objects = <<>>
    /\ keys_to_delete = <<>>
    /\ deleted_count = NoCount
    /\ fs = {}
    /\ result = "none"
    /\ exc = NoException
    /\ calls = <<>>
    /\ inflight = 0
    /\ hist = HistInit(0)
    /\ repo = Untracked
    /\ dbcontent = InitialContent
    /\ rst = RestoreIdle
    /\ sto = StorageIdle
    /\ proc = MainIdle

GetExpiredCall ==
    /\ ~ret.called
    /\ ret' = [ret EXCEPT !.called = TRUE,
                          !.expired = get_expired_backups(ret.objects, ret.days,
                                                          UtcNow(ret.now))]
    /\ UNCHANGED schedVars

RetNext == GetExpiredCall

RetSpec == RetInit /\ [][RetNext]_vars

---------------------------------------------------------------------------
(* Properties *)

\* o is the first cron occurrence strictly after t
IsFirstOccurrenceAfter(o, t) ==
    /\ o > t
    /\ IsOccurrence(cfg.backup_schedule, o)
    /\ \A u \in t + 1 .. o - 1 : ~IsOccurrence(cfg.backup_schedule, u)

\* the job that runs, or the last one, was started by the wait-and-fire loop
LoopJob == hist.nLoop >= 1

\* the wait-and-fire loop is at its call of run_backup_job: a loop job starts
LoopJobStarts == pc = "call" /\ hist.computed

\* run_backup_job has just returned: the loop has not gone on yet
JobJustEnded == job = "none" /\ calls # <<>>

\* C1: a failing step aborts the job and no later step is attempted: a backup that
\* raises BackupError, or an upload that raises StorageError, is the last
\* capability call of its job (no upload, no list, no delete_many follows it),
\* and the job has returned False and let no exception through.
C1_FailingStepAborts ==
    \A i \in 1 .. Len(calls) :
        (\/ calls[i].op = "backup" /\ calls[i].out = "BackupError"
         \/ calls[i].op = "upload" /\ calls[i].out = "StorageError")
        => /\ i = Len(calls)
           /\ job = "none"
           /\ result = "False"
           /\ pc # "crashed"

C1_Witness ==
    /\ JobJustEnded
    /\ Len(calls) = 2
    /\ calls[1].op = "backup" /\ calls[1].out = "ok"
    /\ calls[2].op = "upload" /\ calls[2].out = "StorageError"
    /\ result = "False"

\* C2: the capability calls of a job come in the order backup, upload, list,
\* delete_many, each at most once: an upload only after backup returned a
\* snapshot, with the snapshot's file name as remote key; a list only after the
\* upload returned, with the database name as prefix; a delete_many only after
\* the list returned.
C2_CallOrder ==
    /\ Len(calls) <= 4
    /\ \A i \in 1 .. Len(calls) :
        /\ calls[i].op = <<"backup", "upload", "list", "delete_many">>[i]
        /\ i > 1 => calls[i - 1].out = "ok"
        /\ calls[i].op = "upload" =>
              /\ calls[1].key # NoSnapshot
              /\ calls[i].key = calls[1].key
              /\ calls[i].key.db = cfg.database
        /\ calls[i].op = "list" => calls[i].prefix = cfg.database

C2_Witness ==
    /\ JobJustEnded
    /\ Len(calls) = 4
    /\ calls[4].op = "delete_many" /\ calls[4].out = "ok"
    /\ result = "True"

\* C3: no outcome of a job takes the scheduler out of its loop: no exception
\* leaves run_backup_job, after every job run_scheduler is at the top of the
\* loop, and the next-run time it then computes is the first cron occurrence
\* after the clock reading, whatever the job did.
C3_LoopSurvivesJob ==
    /\ pc # "crashed"
    /\ result # "raised"
    /\ JobJustEnded => pc = "loop"
    /\ pc \in {"next", "wait"} => IsFirstOccurrenceAfter(next_run, base)
    /\ (pc \in {"next", "wait"} /\ hist.lastEnd # NoTime) => base >= hist.lastEnd

C3_Witness ==
    /\ pc = "wait"
    /\ exc.type = "RetentionError"
    /\ result = "False"
    /\ IsFirstOccurrenceAfter(next_run, base)

\* C4: no immediate retry and no early firing: a job the loop starts begins at or
\* after the first cron occurrence strictly after a clock reading that was taken
\* once the previous job had ended.
C4_NoEarlyFiring ==
    LoopJobStarts
    => /\ \E o \in base + 1 .. clock : IsFirstOccurrenceAfter(o, base)
       /\ hist.lastEnd # NoTime => base >= hist.lastEnd

C4_Witness ==
    /\ LoopJobStarts
    /\ LoopJob
    /\ result = "False"
    /\ clock > next_run

\* C5: missed ticks are skipped: the loop starts exactly one job for each next-run
\* time it computes, the occurrence a loop job fires for is the first one after
\* the schedule was recomputed, hence later than the end of the job before it,
\* and the loop has started no more jobs than there were cron occurrences since
\* run_scheduler began.
C5_SkipMissedTicks ==
    /\ hist.nLoop <= Cardinality(Occurrences(cfg.backup_schedule, hist.start, clock))
    /\ hist.nComputed =
          hist.nLoop + (IF hist.computed /\ pc \in {"next", "wait", "call"} THEN 1 ELSE 0)
    /\ LoopJobStarts
       => /\ IsFirstOccurrenceAfter(next_run, base)
          /\ hist.lastEnd # NoTime => next_run > hist.lastEnd

C5_Witness ==
    /\ LoopJobStarts
    /\ hist.spanned >= 2
    /\ next_run > hist.lastEnd

\* C6: at most one Backup Job is in flight, and run_backup_job is entered only
\* when the job before it has returned.
C6_OneJobInFlight ==
    /\ inflight \in {0, 1}
    /\ inflight = 1 <=> job # "none"
    /\ pc = "call" => job = "none"

C6_Witness ==
    /\ inflight = 1
    /\ hist.nStartupDone = 1
    /\ LoopJob

\* C7: with run_immediately exactly one job has run, to its end, when the first
\* next-run time is computed; without it no job starts before the first cron
\* occurrence strictly after the start of run_scheduler.
C7_StartupPhase ==
    /\ hist.nStartup <= 1
    /\ cfg.run_immediately =>
          (hist.computed => hist.nStartup = 1 /\ hist.nStartupDone = 1)
    /\ ~cfg.run_immediately =>
          /\ hist.nStartup = 0
          /\ job # "none" =>
                \E o \in hist.start + 1 .. hist.jobStart :
                    IsOccurrence(cfg.backup_schedule, o)

C7_Witness ==
    /\ cfg.run_immediately
    /\ pc = "next"
    /\ hist.nLoop = 0
    /\ hist.nStartupDone = 1

\* C8: the scheduler runs jobs for ever: every next-run time it computes is
\* followed by the start of a job at or after that time, and jobs are started
\* again and again, whether they fail or not.
C8_RunsForever ==
    /\ (pc = "next") ~> (LoopJobStarts /\ clock >= next_run)
    /\ []<><<JobBegin>>_vars

C8_Witness ==
    /\ LoopJobStarts
    /\ LoopJob
    /\ result = "False"
    /\ clock >= next_run

\* C9: when run_backup_job has returned, the temporary directory of the job and
\* the snapshot in it are gone, however the job ended.
C9_TempDirRemoved == job = "none" => fs = {}

C9_Witness ==
    /\ JobJustEnded
    /\ exc.type = "StorageError"
    /\ calls[1].key # NoSnapshot
    /\ fs = {}

\* the instant of a datetime, a naive one read as UTC
InstantOf(dt) == IF dt.aware THEN dt.t - dt.off ELSE dt.t

OlderThanWindow(o) == InstantOf(o.last_modified) < ret.now - ret.days * Day

\* C10: get_expired_backups returns exactly the objects whose last_modified is
\* strictly before now - d days, in their order: one at the cutoff is kept, one a
\* unit older is returned, and an empty list gives an empty list.
C10_ExpiredIffStrictlyOlder ==
    ret.called => ret.expired = SelectSeq(ret.objects, OlderThanWindow)

C10_Witness ==
    /\ ret.called
    /\ Len(ret.objects) = 2
    /\ InstantOf(ret.objects[1].last_modified) = ret.now - ret.days * Day
    /\ InstantOf(ret.objects[2].last_modified) = ret.now - ret.days * Day - 1
    /\ ret.expired = <<ret.objects[2]>>

\* sub is a subsequence of seq: its elements, at increasing positions of seq
IsSubsequence(sub, seq) ==
    \E f \in [1 .. Len(sub) -> 1 .. Len(seq)] :
        /\ \A i \in 1 .. Len(sub) : seq[f[i]] = sub[i]
        /\ \A i, j \in 1 .. Len(sub) : i < j => f[i] < f[j]

\* C11: get_expired_backups preserves the order of its input and leaves the input
\* alone: the list it returns is a subsequence of the list it was given, in the
\* order of that list, and the call changes neither the list it was given nor
\* the window or the time.
C11_PureOrderPreserving ==
    /\ [](ret.called => IsSubsequence(ret.expired, ret.objects))
    /\ [][/\ ret'.objects = ret.objects
          /\ ret'.days = ret.days
          /\ ret'.now = ret.now]_vars

C11_Witness ==
    /\ ret.called
    /\ Len(ret.objects) = 2
    /\ ret.objects[1] # ret.objects[2]
    /\ ret.expired = ret.objects

\* o is strictly older than the window at time t
ExpiredAt(o, t) == InstantOf(o.last_modified) < t - cfg.retention_days * Day

ExpiredNow(o) == ExpiredAt(o, clock)

\* the last capability call of the job
LastCall(cs) == cs[Len(cs)]

CallsOf(op) == {i \in 1 .. Len(calls) : calls[i].op = op}

\* C12: the cleanup of a job lists the storage once, under the database name;
\* if a listed object is expired it goes on to delete_many, once, with the keys
\* of exactly the expired objects in the order of the listing, and returns their
\* number; if none is expired it calls no delete_many and returns 0.
C12_ListOnceDeleteOnce ==
    /\ [](/\ Cardinality(CallsOf("list")) <= 1
          /\ Cardinality(CallsOf("delete_many")) <= 1
          /\ \A i \in CallsOf("list") : calls[i].prefix = cfg.database
          /\ \A i \in CallsOf("delete_many") :
                i > 1 /\ calls[i - 1].op = "list" /\ calls[i - 1].out = "ok"
          /\ job = "delete" =>
                /\ listed_objects \in Orderings(StoreList(repo, cfg.database))
                /\ keys_to_delete = KeysOf(SelectSeq(listed_objects, ExpiredNow))
                /\ keys_to_delete # <<>>)
    /\ [][/\ (job = "list" /\ job' # "list" /\ LastCall(calls').out = "ok") =>
                /\ job' = "delete" <=>
                      \E o \in StoreList(repo, cfg.database) : ExpiredAt(o, clock')
                /\ job' = "none" =>
                      /\ deleted_count' = 0
                      /\ CallsOf("delete_many")' = {}
          /\ (job = "delete" /\ job' = "none") =>
                /\ LastCall(calls').op = "delete_many"
                /\ LastCall(calls').keys = keys_to_delete
                /\ LastCall(calls').out = "ok" =>
                      deleted_count' = Len(keys_to_delete)]_vars

C12_Witness ==
    /\ JobJustEnded
    /\ Len(calls) = 4
    /\ LastCall(calls).out = "ok"
    /\ Len(LastCall(calls).keys) = 2
    /\ deleted_count = 2
    /\ Cardinality(repo.objects) >= 1

\* the objects a step takes out of the repository, or changes
RemovedByStep == {o \in repo.objects : o \notin repo'.objects}

C14_CleanupWrapsFailure ==
    (JobJustEnded /\ LastCall(calls).op \in {"list", "delete_many"}
                  /\ LastCall(calls).out # "ok")
    => exc = Raised("RetentionError", LastCall(calls).out)

C14_Witness ==
    /\ JobJustEnded
    /\ LastCall(calls).op = "delete_many"
    /\ LastCall(calls).out = "StorageError"
    /\ exc = Raised("RetentionError", "StorageError")

\* C15: a cleanup that fails takes nothing from the backup of the same job: when
\* the job returns after backup and upload went through and the cleanup raised
\* (at list or at delete_many), the repository holds the object of this job,
\* under the file name of the snapshot and with the content that was dumped.
C15_BackupSurvivesCleanupFailure ==
    (JobJustEnded /\ exc.type = "RetentionError")
    => /\ calls[2].op = "upload" /\ calls[2].out = "ok"
       /\ \E o \in repo.objects :
             /\ o.key = calls[2].key
             /\ o.key = calls[1].key
             /\ o.content = dbcontent

C15_Witness ==
    /\ JobJustEnded
    /\ exc = Raised("RetentionError", "StorageError")
    /\ LastCall(calls).op = "delete_many"
    /\ \E k \in SeqToSet(LastCall(calls).keys) : \A o \in repo.objects : o.key # k
    /\ \E o \in repo.objects : o.key = calls[2].key /\ o.content = dbcontent

\* the order of two keys as strings: a digit sorts before a letter, so the backups
\* of "app" come before those of "app_prod", and those of "web" last; the
\* timestamps of one database sort as the times do
NameRank(name) ==
    CASE name = "app" -> 1 [] name = "app_prod" -> 2 [] name = "web" -> 3

KeyBefore(k1, k2) ==
    \/ NameRank(k1.db) < NameRank(k2.db)
    \/ k1.db = k2.db /\ k1.ts < k2.ts

\* the objects of the repository that storage.list gives the workflow
RestoreListed == StoreList(repo, cfg.database)

ListedObject(key) == CHOOSE o \in RestoreListed : o.key = key

\* the place of a key in the listing as the storage returned it
ListedAt(key) == CHOOSE i \in 1 .. Len(rst.listed) : rst.listed[i].key = key

\* list_available_backups has returned, on its own or in restore_latest_backup
BackupsListed == rst.calls # <<>> /\ rst.calls[1].op = "list" /\ rst.calls[1].out = "ok"

\* the keys returned are those of the objects under the prefix, newest first
NewestFirst ==
    /\ Len(rst.backups) = Cardinality(RestoreListed)
    /\ SeqToSet(rst.backups) = {o.key : o \in RestoreListed}
    /\ \A i, j \in 1 .. Len(rst.backups) :
          i < j => ~DtLess(ListedObject(rst.backups[i]).last_modified,
                           ListedObject(rst.backups[j]).last_modified)

SameLastModified(k1, k2) ==
    ListedObject(k1).last_modified = ListedObject(k2).last_modified

RestoreBackupDone == rst.pc = "done" /\ rst.backup_key # NoSnapshot

CallsWith(op) == {i \in 1 .. Len(rst.calls) : rst.calls[i].op = op}

\* no capability call of the workflow has failed
NoMechanismFailed ==
    \A i \in 1 .. Len(rst.calls) :
        rst.calls[i].out \notin {"StorageError", "BackupError", "Exception"}

\* C18: round trip: restore_backup with the key of an object that a Backup Job
\* has uploaded returns True and leaves the database with the content that was
\* dumped, when neither the download nor the restore mechanism fails.
C18_RoundTrip ==
    (RestoreBackupDone /\ IsStored(rst.backup_key) /\ NoMechanismFailed)
    => /\ rst.result = "True"
       /\ dbcontent = ContentOf(rst.backup_key)

C20_NoRawException ==
    (rst.op \in {"restore_backup", "restore_latest_backup"} /\ rst.pc = "done")
    => rst.result \in {"True", "False"}

\* delete_many of the S3 adapter (S3 or R2) has been called
S3DeleteManyCalled == sto.op = "delete_many" /\ sto.variant \in {"s3", "r2"} /\ sto.client

\* the keys the calls on the client were given, one call after the other
RECURSIVE KeysOfCalls(_)
KeysOfCalls(cs) == IF cs = <<>> THEN <<>> ELSE Head(cs).keys \o KeysOfCalls(Tail(cs))

\* the least number of batches of at most b keys that n keys go into
CeilDiv(n, b) == (n + b - 1) \div b

\* C21: S3 delete_many batches by 1000: every underlying call is a delete_objects
\* of at least one and at most BatchCap keys, the keys of the calls taken one
\* call after the other are the input keys in input order as far as the calls
\* have gone, and once delete_many has returned with no call having raised
\* there have been exactly ceil(n / BatchCap) calls that carry every input key
\* once; with no keys there is no call.
C21_BatchesOfAThousand ==
    S3DeleteManyCalled
    => LET n == Len(sto.remote_keys)
           cs == sto.client_calls
           given == KeysOfCalls(cs)
       IN /\ \A j \in 1 .. Len(cs) :
                /\ cs[j].op = "delete_objects"
                /\ Len(cs[j].keys) >= 1
                /\ Len(cs[j].keys) <= BatchCap
          /\ Len(given) <= n
          /\ given = SubSeq(sto.remote_keys, 1, Len(given))
          /\ Len(cs) <= CeilDiv(n, BatchCap)
          /\ (sto.returned = "None")
                => /\ Len(cs) = CeilDiv(n, BatchCap)
                   /\ given = sto.remote_keys
          /\ (n = 0) => cs = <<>>

\* delete_many of 1500 keys has returned after two calls, of 1000 keys and of 500
C21_Witness ==
    /\ S3DeleteManyCalled
    /\ Len(sto.remote_keys) = BatchCap + BatchCap \div 2
    /\ sto.returned = "None"
    /\ Len(sto.client_calls) = 2
    /\ Len(sto.client_calls[1].keys) = BatchCap
    /\ Len(sto.client_calls[2].keys) = BatchCap \div 2

\* C22: delete_many is all or nothing: once it is over it has either raised
\* StorageError, or returned with every call on its client having succeeded and
\* no object of a requested key left in the bucket.
C22_AllOrNothing ==
    (sto.op = "delete_many" /\ sto.client /\ sto.pc = "done")
    => \/ sto.returned = "raised" /\ sto.exc.type = "StorageError"
       \/ /\ sto.returned = "None"
          /\ \A j \in 1 .. Len(sto.client_calls) : sto.client_calls[j].out = "ok"
          /\ \A k \in 1 .. Len(sto.remote_keys) : ~IsStored(sto.remote_keys[k])

\* C23: list(prefix) of every variant returns the objects of the bucket whose key
\* starts with prefix, each once, and no other.
C23_ListReturnsPrefix ==
    (sto.op = "list" /\ sto.returned = "objects")
    => LET under == {o.key : o \in {x \in repo.objects : UnderPrefix(x.key, sto.prefix)}}
       IN /\ {sto.objects[k].key : k \in 1 .. Len(sto.objects)} = under
          /\ Len(sto.objects) = Cardinality(under)
\* C24: no R2 adapter without an endpoint: load_config for the storage type r2
\* with no S3_ENDPOINT raises ConfigError, and constructing the R2 adapter with
\* an empty endpoint raises (ValueError) in __init__: no client is ever created
\* and no call is made on one.
C24_NoR2WithoutEndpoint ==
    (sto.variant = "r2" /\ sto.endpoint = "")
    => /\ ~sto.loaded
       /\ ~sto.client
       /\ sto.client_calls = <<>>
       /\ sto.pc \in {"idle", "done"}
       /\ (sto.pc = "done")
            => /\ sto.returned = "raised"
               /\ sto.exc.type \in {"ConfigError", "ValueError"}

\* the R2 adapter has been constructed with an empty endpoint, and has raised
C24_Witness ==
    /\ sto.variant = "r2"
    /\ sto.endpoint = ""
    /\ sto.op = "delete_many"
    /\ sto.pc = "done"
    /\ sto.exc.type = "ValueError"
\* an environment the configuration must be refused for: the cron expression is
\* missing or croniter rejects it, RETENTION_DAYS is a number below 1, or the
\* database type or the storage type is not one of those known
InvalidEnvironment(env) ==
    \/ env.BACKUP_SCHEDULE.kind # "cron"
    \/ env.RETENTION_DAYS.kind = "int" /\ env.RETENTION_DAYS.value < 1
    \/ env.DATABASE_TYPE \notin {"postgres", "mongodb"}
    \/ env.STORAGE_TYPE \notin {"s3", "backblaze", "r2"}

\* a Backup Job runs or has run
SomeJobBegun == job # "none" \/ hist.nStartup + hist.nLoop > 0

RestoreSucceeded ==
    IF proc.args.list
    THEN rst.op = "list_available_backups" /\ rst.result = "returned"
    ELSE rst.result = "True" /\ dbcontent = ContentOf(rst.backup_key)

C27_RestoreXorScheduler ==
    /\ (proc.args.command = "restore")
       => /\ proc.pc # "run_scheduler"
          /\ pc = "idle"
          /\ ~SomeJobBegun
          /\ inflight = 0
          /\ calls = <<>>
    /\ (proc.args.command # "restore")
       => /\ proc.pc # "run_restore"
          /\ rst = RestoreIdle

\* main has returned 1 from a restore that failed, having run no job
C27_Witness ==
    /\ proc.args.command = "restore"
    /\ proc.pc = "exit"
    /\ proc.exit_code = 1
    /\ rst.op = "restore_latest_backup"
    /\ rst.result = "False"
    /\ Len(rst.calls) >= 2
C29_RetentionFailureKeepsSuccess ==
    (JobJustEnded /\ exc.type = "RetentionError")
    => result = "True"

\* C30: wait, then fire once: from its second clock reading the loop goes to its
\* call of run_backup_job, with no time passing when next_run - now is at most 0
\* and after a sleep of that wait (time.sleep(wait_seconds), which lasts no less
\* than it is asked for) when it is more; at the call one job begins, and when
\* the loop comes round it has run one job for every next-run time it computed.
C30_WaitThenFireOnce ==
    [][/\ (pc = "wait")
          => /\ pc' = "call"
             /\ job' = "none"
             /\ hist' = hist
             /\ (next_run - now <= 0) => clock' = clock
             /\ (next_run - now > 0) => clock' - clock >= next_run - now
       /\ (pc = "call" /\ hist.computed)
          => /\ job' = "backup"
             /\ inflight' = 1
             /\ hist'.nLoop = hist.nLoop + 1
       /\ (pc' = "loop") => hist'.nLoop = hist'.nComputed]_vars

\* the loop is at its call with no time gone since the second clock reading,
\* which was not before the next-run time
C30_Witness ==
    /\ pc = "call"
    /\ hist.computed
    /\ next_run - now <= 0
    /\ clock = now
    /\ hist.nLoop >= 1

\* restore_latest_backup has returned after a listing that gave it backups
LatestRestoreDone ==
    rst.op = "restore_latest_backup" /\ rst.pc = "done" /\ rst.backups # <<>>

\* C31: restore_latest_backup is restore_backup of the first key that
\* list_available_backups returns: with at least one backup listed and no
\* mechanism failing, it downloads that key once and restores it once, and no
\* other key is downloaded or restored.
C31_LatestRestoresNewestOnce ==
    (LatestRestoreDone /\ NoMechanismFailed)
    => /\ Cardinality(CallsWith("download")) = 1
       /\ Cardinality(CallsWith("restore")) = 1
       /\ \A i \in CallsWith("download") \cup CallsWith("restore") :
             rst.calls[i].key = rst.backups[1] /\ rst.calls[i].out = "ok"

SchedulerLeft == proc.pc = "exit" /\ pc # "idle"

\* C33: the sleep of the scheduler can be interrupted: a KeyboardInterrupt that
\* arrives in it ends run_scheduler before the time asked for has passed, no
\* Backup Job begins after it, and main returns 0; run_scheduler is left in no
\* other way than by a KeyboardInterrupt.
C33_SleepInterruptible ==
    [][/\ (SchedulerSleeping /\ proc'.pc # "run_scheduler")
          => /\ proc'.pc = "exit"
             /\ proc'.exit_code = 0
             /\ clock' < next_run
             /\ job' = "none"
             /\ hist' = hist
       /\ (proc.pc = "run_scheduler" /\ proc'.pc # "run_scheduler")
          => /\ proc'.pc = "exit"
             /\ proc'.exc.type = "KeyboardInterrupt"
             /\ proc'.exit_code = 0
       /\ SchedulerLeft => (job' = job /\ hist' = hist /\ calls' = calls)]_vars

C33_Witness ==
    /\ SchedulerLeft
    /\ pc = "wait"
    /\ now < clock
    /\ clock < next_run
    /\ hist.nStartup = 1
    /\ proc.exit_code = 0

\* the upload of the running Backup Job has just put its object in the bucket
UploadStored ==
    /\ job = "upload"
    /\ calls' # <<>>
    /\ LastCall(calls').op = "upload"
    /\ LastCall(calls').out = "ok"

\* C34: the Backup Jobs of one scheduler run have strictly increasing timestamps
\* and so distinct keys: a job begins later than the job before it ended, and
\* its upload puts in the bucket a key that no object there has and whose
\* timestamp is later than that of every object there, so it replaces none.
C34_KeysNeverReused ==
    [][/\ (pc = "call" /\ pc' = SchedulerInCall /\ hist.lastEnd # NoTime)
          => hist.lastEnd < clock
       /\ UploadStored
          => /\ \A o \in repo.objects :
                   o.key # RemoteKey(snapshot) /\ o.key.ts < RemoteKey(snapshot).ts
             /\ repo'.objects = repo.objects
                    \cup {Stored(RemoteKey(snapshot), UtcDatetime(clock'), dbcontent)}]_vars

C34_Witness ==
    /\ job = "none"
    /\ hist.nStartup = 1
    /\ hist.nLoop >= 1
    /\ Cardinality(repo.objects) >= 2
    /\ \E o \in repo.objects : o.key.ts + 1 = clock

\* run_backup_job has just returned True
JobReturnsTrue == job # "none" /\ job' = "none" /\ result' = "True"

\* C35: when a Backup Job returns True the object it uploaded is in the bucket,
\* a backup of the database not older than the job; and no step takes the
\* newest backup of the database out of the bucket, so from the first success on
\* the bucket holds a backup not older than the last successful job.
C35_SuccessKeepsBackup ==
    [][/\ JobReturnsTrue
          => \E o \in repo'.objects :
                /\ o.key = calls'[2].key
                /\ o.key.db = cfg.database
                /\ o.key.ts >= hist.jobStart
                /\ o.last_modified.t >= hist.jobStart
       /\ \A o \in {x \in repo.objects : x.key.db = cfg.database} :
             \E n \in repo'.objects :
                n.key.db = o.key.db /\ ~DtLess(n.last_modified, o.last_modified)]_vars

C35_Witness ==
    /\ job = "none"
    /\ result = "True"
    /\ deleted_count >= 1
    /\ \E o \in repo.objects : o.key = calls[2].key
    /\ \E i \in 1 .. Len(calls) :
          calls[i].op = "delete_many" /\ calls[2].key \notin SeqToSet(calls[i].keys)

\* C36: run_backup_job returns True only when, in that call, backup returned a
\* snapshot and the upload of that snapshot under its file name returned:
\* never after a backup or an upload that raised or was not reached.
C36_TrueOnlyAfterUpload ==
    (JobJustEnded /\ result = "True")
    => /\ Len(calls) >= 2
       /\ calls[1].op = "backup" /\ calls[1].out = "ok"
       /\ calls[1].key # NoSnapshot
       /\ calls[2].op = "upload" /\ calls[2].out = "ok"
       /\ calls[2].key = calls[1].key
       /\ \A i \in 1 .. Len(calls) :
             calls[i].op \in {"backup", "upload"} => calls[i].out = "ok"

C36_Witness ==
    /\ JobJustEnded
    /\ result = "True"
    /\ Len(calls) = 3
    /\ calls[2].op = "upload"
    /\ calls[2].key = BackupName(cfg.database, hist.start, cfg.extension)
    /\ deleted_count = 0

\* C37: in a bucket that several databases share, the cleanup of a Backup Job
\* deletes backups of the job's database only: every key it gives delete_many
\* is a key of that database, and no object of another database, such as
\* "app_prod" beside "app", leaves the bucket.
C37_CleanupOwnDatabaseOnly ==
    /\ \A i \in CallsOf("delete_many") :
          \A k \in SeqToSet(calls[i].keys) : k.db = cfg.database
    /\ keys_to_delete # <<>> => \A k \in SeqToSet(keys_to_delete) : k.db = cfg.database

\* C38: restore_latest_backup restores a backup of the database of the backup
\* adapter only: the key it hands to restore_backup is a key of that database,
\* never one of another database whose name begins with its name.
C38_LatestOfOwnDatabase ==
    (rst.op = "restore_latest_backup" /\ rst.backup_key # NoSnapshot)
    => rst.backup_key.db = cfg.database

\* C39: the Restore Workflow leaves the bucket as it is: whatever calls of
\* list_available_backups, restore_backup and restore_latest_backup are made,
\* and however they end, they call list and download of the storage and restore
\* of the backup adapter only, and the objects stored do not change.
C39_RestoreLeavesRepository ==
    [][rst' # rst
       => /\ repo' = repo
          /\ \A i \in 1 .. Len(rst'.calls) :
                rst'.calls[i].op \in {"list", "download", "restore"}]_vars

C39_Witness ==
    /\ rst.op = "restore_latest_backup"
    /\ rst.pc = "done"
    /\ Len(rst.calls) = 2
    /\ Cardinality(repo.objects) = MaxListing
    /\ repo.objects = {o \in repo.objects : UnderPrefix(o.key, RestorePrefix)}

====
